---- MODULE Spec2Model ----
(***************************************************************************)
(* Model of the astrbot_mcgetter plugin: the per-group JSON registry of    *)
(* Minecraft servers (script/json_operate.py) and the chat commands that   *)
(* drive it (main.py).                                                     *)
(*                                                                         *)
(* A Python dict is an ordered dict [order, map]: `order` is the sequence  *)
(* of its keys in insertion order, `map` the key -> value function.  A     *)
(* server_info dict is a record (its key order is never observed).  None   *)
(* is the empty tuple and an optional value v is <<v>>.                    *)
(***************************************************************************)
EXTENDS Integers, Sequences, FiniteSets, TLC

VARIABLES
    files,           \* group id -> the group's JSON file on disk
    DEFAULT_CONFIG,  \* the module-level dict of json_operate.py (one per process)
    now,             \* int(time.time())
    assigned,        \* history: group id -> ids handed out by add_data, in order
    removed,         \* history: group id -> ids of records that were deleted
    procs,           \* the add_data coroutines in flight (they run in SpecConc)
    motd,            \* the MOTD string of a server status (a sequence of characters)
    parsed           \* what parse_motd_colors returned for it, None before the call

vars == <<files, DEFAULT_CONFIG, now, assigned, removed, procs, motd, parsed>>

-----------------------------------------------------------------------------
(* Bounds of the model *)

\* add_data is explored while the next_id it reads is at most MaxId
MaxId == 2
\* update_server_status(success=False) is explored while failed_count < MaxFail
MaxFail == 1
\* old-format files of Init hold at most MaxOld entries
MaxOld == 2
\* the clock advances at most this many seconds
MaxTick == 1
\* sequences of at most this many status updates are applied to a record
MaxUpd == 3
\* the clock at Init (seconds since the epoch)
T0 == 1700000000

Groups == {"g1", "g2"}
\* the group of the single-file specifications
G1 == "g1"
\* names include the empty string and a string that is also an id key
Names == {"a", "2", ""}
Hosts == {"h1", "h2", "h3"}
\* the one host of the specifications that do not look at hosts
OneHost == {"h1"}

-----------------------------------------------------------------------------
(* Python values *)

None == <<>>
Some(v) == <<v>>

Digits == "0123456789"

\* str(n) for a non-negative int
RECURSIVE Str(_)
Str(n) == IF n < 10 THEN SubSeq(Digits, n + 1, n + 1)
          ELSE Str(n \div 10) \o Str(n % 10)

Min(S) == CHOOSE x \in S : \A y \in S : x <= y

\* {}
EmptyDict == [order |-> <<>>, map |-> <<>>]
\* key in d
In(d, k) == k \in DOMAIN d.map
\* d[k]
Get(d, k) == d.map[k]
\* d[k] = v : an existing key keeps its place, a new key goes last
Put(d, k, v) ==
    IF In(d, k) THEN [d EXCEPT !.map[k] = v]
    ELSE [order |-> Append(d.order, k), map |-> (k :> v) @@ d.map]
\* del d[k]
Del(d, k) ==
    [order |-> SelectSeq(d.order, LAMBDA x : x # k),
     map |-> [x \in DOMAIN d.map \ {k} |-> d.map[x]]]
\* d.get("servers", {})
Servers(d) == IF In(d, "servers") THEN Get(d, "servers") ELSE EmptyDict

-----------------------------------------------------------------------------
(* json_operate.py *)

CURRENT_VERSION == "2.1"

\* the value DEFAULT_CONFIG is bound to when the module is imported
DefaultConfigLiteral ==
    [order |-> <<"version", "next_id", "servers", "last_cleanup">>,
     map |-> [version |-> CURRENT_VERSION, next_id |-> 1,
              servers |-> EmptyDict, last_cleanup |-> None]]

AUTO_CLEANUP_DAYS == 10

\* a file: absent, holding a JSON object, or holding text json.loads rejects
Absent == [kind |-> "absent"]
Corrupt == [kind |-> "corrupt"]
Json(data) == [kind |-> "json", data |-> data]

\* the faults one call can meet: rd, the open/read of read_json raises; rw, the
\* write_json inside read_json fails; w, the call's own write_json fails.  A
\* failing write raises before the file is opened ("pre") or after open(.., 'w')
\* truncated it ("trunc").
NoFault == [rd |-> FALSE, rw |-> "ok", w |-> "ok"]
Faults ==
    { [rd |-> TRUE, rw |-> "ok", w |-> "ok"] }
    \cup { [rd |-> FALSE, rw |-> m, w |-> "ok"] : m \in {"pre", "trunc"} }
    \cup { [rd |-> FALSE, rw |-> "ok", w |-> m] : m \in {"pre", "trunc"} }

is_old_format(data) ==
    IF Len(data.order) = 0 THEN FALSE
    ELSE IF In(data, "version") THEN FALSE
    ELSE \E k \in DOMAIN data.map :
            "name" \in DOMAIN data.map[k] /\ "host" \in DOMAIN data.map[k]

\* the loop of migrate_old_format over data.items() from position i on:
\* `servers` is the dict new_data["servers"], next_id the local counter
RECURSIVE MigrateLoop(_, _, _, _)
MigrateLoop(data, i, servers, next_id) ==
    IF i > Len(data.order) THEN [servers |-> servers, next_id |-> next_id]
    ELSE LET server_info == data.map[data.order[i]]
         IN  IF "name" \in DOMAIN server_info /\ "host" \in DOMAIN server_info
             THEN MigrateLoop(data, i + 1,
                      Put(servers, Str(next_id),
                          [id |-> next_id, name |-> server_info.name,
                           host |-> server_info.host]),
                      next_id + 1)
             ELSE MigrateLoop(data, i + 1, servers, next_id)

\* new_data = DEFAULT_CONFIG.copy() is a shallow copy: new_data["servers"] is the
\* very dict DEFAULT_CONFIG["servers"], so filling it fills DEFAULT_CONFIG's too.
\* Returns the migrated document and DEFAULT_CONFIG as the call leaves it.
Migrated(dc, l) ==
    [data |-> Put(Put(dc, "servers", l.servers), "next_id", l.next_id),
     dc |-> Put(dc, "servers", l.servers)]

migrate_old_format(dc, data) ==
    Migrated(dc, MigrateLoop(data, 1, Get(dc, "servers"), 1))

\* write_json: json.dumps then json.loads is the identity on these values
\* (string keys, ints, strings, None, key order kept)
write_json(fs, path, new_data, mode) ==
    IF mode = "ok" THEN [raised |-> FALSE, fs |-> [fs EXCEPT ![path] = Json(new_data)]]
    ELSE IF mode = "trunc" THEN [raised |-> TRUE, fs |-> [fs EXCEPT ![path] = Corrupt]]
    ELSE [raised |-> TRUE, fs |-> fs]

\* lines 134-139 of read_json
SetDefault(data, k, v) == IF In(data, k) THEN data ELSE Put(data, k, v)

EnsureKeys(data) ==
    SetDefault(SetDefault(SetDefault(data, "version", CURRENT_VERSION),
                          "next_id", 1),
               "servers", EmptyDict)

\* what read_json hands back.  exc is "none", "IOError" or "JSONDecodeError";
\* alias tells which object the returned dict is: "all", DEFAULT_CONFIG itself;
\* "servers", a dict of its own whose "servers" value is DEFAULT_CONFIG["servers"];
\* "none", a freshly parsed dict.  fs and dc are the files and DEFAULT_CONFIG as
\* the call leaves them.
Raised(exc, fs, dc) ==
    [exc |-> exc, data |-> EmptyDict, alias |-> "none", fs |-> fs, dc |-> dc]
Returned(data, alias, fs, dc) ==
    [exc |-> "none", data |-> data, alias |-> alias, fs |-> fs, dc |-> dc]

\* read_json on a missing file: w is the outcome of write_json(DEFAULT_CONFIG)
ReadMissing(w, dc) ==
    IF w.raised THEN Raised("IOError", w.fs, dc)
    ELSE Returned(dc, "all", w.fs, dc)

\* read_json on an old-format file: m is the migration, w the outcome of saving it
ReadMigrated(m, w) ==
    IF w.raised THEN Raised("IOError", w.fs, m.dc)
    ELSE Returned(EnsureKeys(m.data), "servers", w.fs, m.dc)

ReadOld(fs, path, m, io) == ReadMigrated(m, write_json(fs, path, m.data, io.rw))

\* the cached-document variant of read_json: a module-level dict holds the
\* parsed document and every caller is handed that dict
read_json_Cached(fs, dc, path, io) ==
    IF fs[path].kind = "absent"
    THEN ReadMissing(write_json(fs, path, dc, io.rw), dc)
    ELSE IF io.rd THEN Raised("IOError", fs, dc)
    ELSE IF fs[path].kind = "corrupt" THEN Raised("JSONDecodeError", fs, dc)
    ELSE IF dc = DefaultConfigLiteral
    THEN Returned(EnsureKeys(fs[path].data), "all", fs, EnsureKeys(fs[path].data))
    ELSE Returned(dc, "all", fs, dc)

\* read_json (lines 115-148): the dict it returns or the exception it raises
read_json(fs, dc, path, io) ==
    IF fs[path].kind = "absent"
    THEN ReadMissing(write_json(fs, path, dc, io.rw), dc)
    ELSE IF io.rd THEN Raised("IOError", fs, dc)
    ELSE IF fs[path].kind = "corrupt" THEN Raised("JSONDecodeError", fs, dc)
    ELSE IF is_old_format(fs[path].data)
    THEN ReadOld(fs, path, migrate_old_format(dc, fs[path].data), io)
    ELSE Returned(EnsureKeys(fs[path].data), "none", fs, dc)

\* DEFAULT_CONFIG after the caller changed the dict read_json gave it into data
Aliased(dc, alias, data) ==
    IF alias = "all" THEN data
    ELSE IF alias = "servers" THEN Put(dc, "servers", Get(data, "servers"))
    ELSE dc

\* the positions, in dict order, of the records named name
NameHits(s, name) == {i \in 1..Len(s.order) : s.map[s.order[i]].name = name}

\* get_server_by_name looking the name up among the keys (servers.get(name))
get_server_by_name_AsKey(data, name) ==
    IF name \in DOMAIN Servers(data).map THEN Some(name) ELSE None

\* get_server_by_name: the key of the first record, in dict order, with that name
get_server_by_name(data, name) ==
    IF NameHits(Servers(data), name) = {} THEN None
    ELSE Some(Servers(data).order[Min(NameHits(Servers(data), name))])

\* what a registry call hands back: ret, its return value; sid, the key of the
\* record it stored, deleted or resolved ("" when none); n, the next_id add_data
\* read or the failed_count update_server_status stored (0 when none)
Refused(r, sid, n) ==
    [ret |-> FALSE, fs |-> r.fs, dc |-> r.dc, sid |-> sid, n |-> n]

\* Written with a write_json that logs its failure and does not raise
Written_FailureUnseen(r, d, w, ok, failed, sid, n) ==
    [ret |-> ok, fs |-> w.fs, dc |-> Aliased(r.dc, r.alias, d), sid |-> sid, n |-> n]

\* the call changed the dict it read into d; w is the outcome of write_json(d).
\* The except clause turns a failed write into the value `failed`.
Written(r, d, w, ok, failed, sid, n) ==
    [ret |-> IF w.raised THEN failed ELSE ok, fs |-> w.fs,
     dc |-> Aliased(r.dc, r.alias, d), sid |-> sid, n |-> n]

Store(r, d, path, io, ok, failed, sid, n) ==
    Written(r, d, write_json(r.fs, path, d, io.w), ok, failed, sid, n)

\* the record add_data stores
NewRecord(server_id, name, host, current_time) ==
    [id |-> server_id, name |-> name, host |-> host,
     created_time |-> current_time, last_success_time |-> current_time,
     last_failed_time |-> None, failed_count |-> 0]

\* AddedData with the id taken from the number of records, not from next_id
AddedData_IdFromCount(data, name, host, t) ==
    Put(Put(data, "next_id", Get(data, "next_id") + 1), "servers",
        Put(Get(data, "servers"), Str(Len(Get(data, "servers").order) + 1),
            NewRecord(Len(Get(data, "servers").order) + 1, name, host, t)))

\* AddedData without line 204 (data["next_id"] += 1)
AddedData_KeepNextId(data, name, host, t) ==
    Put(data, "servers",
        Put(Get(data, "servers"), Str(Get(data, "next_id")),
            NewRecord(Get(data, "next_id"), name, host, t)))

\* lines 202-216 of add_data: the dict after the id is taken and the record stored
AddedData(data, name, host, t) ==
    Put(Put(data, "next_id", Get(data, "next_id") + 1), "servers",
        Put(Get(data, "servers"), Str(Get(data, "next_id")),
            NewRecord(Get(data, "next_id"), name, host, t)))

AddRead(r, t, path, name, host, io) ==
    IF r.exc # "none" THEN Refused(r, "", 0)
    ELSE IF get_server_by_name(r.data, name) # None
    THEN Refused(r, "", Get(r.data, "next_id"))
    ELSE Store(r, AddedData(r.data, name, host, t), path, io, TRUE, FALSE,
               Str(Get(r.data, "next_id")), Get(r.data, "next_id"))

add_data(fs, dc, t, path, name, host, io) ==
    AddRead(read_json(fs, dc, path, io), t, path, name, host, io)

\* DelLookup with the two lookups swapped: as a name first, as an id key second
DelLookup_NameFirst(data, identifier) ==
    IF get_server_by_name(data, identifier) # None
    THEN get_server_by_name(data, identifier)
    ELSE IF identifier \in DOMAIN Servers(data).map THEN Some(identifier)
    ELSE None

\* lines 240-255 of del_data: the identifier as an id key first, as a name second
DelLookup(data, identifier) ==
    IF identifier \in DOMAIN Servers(data).map THEN Some(identifier)
    ELSE get_server_by_name(data, identifier)

DelFound(r, server_id, path, io) ==
    IF server_id = None THEN Refused(r, "", 0)
    ELSE Store(r, Put(r.data, "servers", Del(Servers(r.data), server_id[1])),
               path, io, TRUE, FALSE, server_id[1], 0)

DelRead(r, path, identifier, io) ==
    IF r.exc # "none" THEN Refused(r, "", 0)
    ELSE DelFound(r, DelLookup(r.data, identifier), path, io)

del_data(fs, dc, path, identifier, io) ==
    DelRead(read_json(fs, dc, path, io), path, identifier, io)

\* bool(x) of an Optional[str]
Truthy(x) == x # None /\ x[1] # ""

\* server_info[k] = v
SetField(server_info, k, v) == (k :> v) @@ server_info

\* server_info.get(k, default)
GetOr(server_info, k, default) ==
    IF k \in DOMAIN server_info THEN server_info[k] ELSE default

\* UpdateLookup with the name looked up before the id key
UpdateLookup_NameFirst(data, identifier) ==
    IF get_server_by_name(data, identifier) # None
    THEN get_server_by_name(data, identifier)
    ELSE IF identifier \in DOMAIN Servers(data).map THEN Some(identifier)
    ELSE None

\* lines 284-292 of update_data
UpdateLookup(data, identifier) ==
    IF identifier \in DOMAIN Servers(data).map THEN Some(identifier)
    ELSE get_server_by_name(data, identifier)

\* lines 298-303 of update_data: the new name is taken by another record
NameConflict(data, server_id, server_info, new_name) ==
    /\ Truthy(new_name)
    /\ new_name[1] # server_info.name
    /\ get_server_by_name(data, new_name[1]) # None
    /\ get_server_by_name(data, new_name[1])[1] # server_id

\* lines 305-309 of update_data
UpdatedInfo(server_info, new_name, new_host) ==
    IF new_name # None /\ new_host # None
    THEN SetField(SetField(server_info, "name", new_name[1]), "host", new_host[1])
    ELSE IF new_name # None THEN SetField(server_info, "name", new_name[1])
    ELSE IF new_host # None THEN SetField(server_info, "host", new_host[1])
    ELSE server_info

\* data with the record under key server_id replaced by server_info
WithRecord(data, server_id, server_info) ==
    Put(data, "servers", Put(Servers(data), server_id, server_info))

UpdateFound(r, server_id, path, new_name, new_host, io) ==
    IF server_id = None THEN Refused(r, "", 0)
    ELSE IF NameConflict(r.data, server_id[1], Servers(r.data).map[server_id[1]],
                         new_name)
    THEN Refused(r, server_id[1], 0)
    ELSE Store(r, WithRecord(r.data, server_id[1],
                      UpdatedInfo(Servers(r.data).map[server_id[1]], new_name,
                                  new_host)),
               path, io, TRUE, FALSE, server_id[1], 0)

UpdateRead(r, path, identifier, new_name, new_host, io) ==
    IF r.exc # "none" THEN Refused(r, "", 0)
    ELSE UpdateFound(r, UpdateLookup(r.data, identifier), path, new_name,
                     new_host, io)

update_data(fs, dc, path, identifier, new_name, new_host, io) ==
    UpdateRead(read_json(fs, dc, path, io), path, identifier, new_name, new_host, io)

GetAllRead(r) ==
    [ret |-> IF r.exc # "none" THEN EmptyDict ELSE Servers(r.data),
     fs |-> r.fs, dc |-> r.dc]

get_all_servers(fs, dc, path, io) == GetAllRead(read_json(fs, dc, path, io))

\* lines 456-465 of get_server_info
InfoLookup(data, identifier) ==
    IF identifier \in DOMAIN Servers(data).map THEN Some(identifier)
    ELSE get_server_by_name(data, identifier)

InfoFound(r, server_id) ==
    [ret |-> IF server_id = None THEN None ELSE Some(Servers(r.data).map[server_id[1]]),
     fs |-> r.fs, dc |-> r.dc]

InfoRead(r, identifier) ==
    IF r.exc # "none" THEN [ret |-> None, fs |-> r.fs, dc |-> r.dc]
    ELSE InfoFound(r, InfoLookup(r.data, identifier))

\* get_server_info: ret is None or <<server_info>>
get_server_info(fs, dc, path, identifier, io) ==
    InfoRead(read_json(fs, dc, path, io), identifier)

\* lines 355-363 of update_server_status
StatusLookup(data, identifier) ==
    IF identifier \in DOMAIN Servers(data).map THEN Some(identifier)
    ELSE get_server_by_name(data, identifier)

\* StatusInfo with a failure that does not count up (failed_count = 1)
StatusInfo_FlagOnly(server_info, success, current_time) ==
    IF success
    THEN SetField(SetField(server_info, "last_success_time", current_time),
                  "failed_count", 0)
    ELSE SetField(SetField(server_info, "last_failed_time", Some(current_time)),
                  "failed_count", 1)

\* lines 371-380 of update_server_status
StatusInfo(server_info, success, current_time) ==
    IF success
    THEN SetField(SetField(server_info, "last_success_time", current_time),
                  "failed_count", 0)
    ELSE SetField(SetField(server_info, "last_failed_time", Some(current_time)),
                  "failed_count", GetOr(server_info, "failed_count", 0) + 1)

StatusStore(r, server_id, server_info, path, io) ==
    Store(r, WithRecord(r.data, server_id, server_info), path, io, TRUE, FALSE,
          server_id, server_info.failed_count)

StatusFound(r, server_id, t, path, success, io) ==
    IF server_id = None THEN Refused(r, "", 0)
    ELSE StatusStore(r, server_id[1],
                     StatusInfo(Servers(r.data).map[server_id[1]], success, t),
                     path, io)

StatusRead(r, t, path, identifier, success, io) ==
    IF r.exc # "none" THEN Refused(r, "", 0)
    ELSE StatusFound(r, StatusLookup(r.data, identifier), t, path, success, io)

update_server_status(fs, dc, t, path, identifier, success, io) ==
    StatusRead(read_json(fs, dc, path, io), t, path, identifier, success, io)

\* StaleKeys with `<=` in the place of `<` (line 413)
StaleKeys_Inclusive(servers, cutoff_time) ==
    SelectSeq(servers.order,
              LAMBDA k : GetOr(servers.map[k], "last_success_time", 0) <= cutoff_time)

\* the keys auto_cleanup_servers marks, in dict order
StaleKeys(servers, cutoff_time) ==
    SelectSeq(servers.order,
              LAMBDA k : GetOr(servers.map[k], "last_success_time", 0) < cutoff_time)

RECURSIVE DelAll(_, _)
DelAll(servers, ks) ==
    IF ks = <<>> THEN servers ELSE DelAll(Del(servers, Head(ks)), Tail(ks))

\* one entry of the list auto_cleanup_servers returns
DeletedEntry(server_id, server_info) ==
    [id |-> server_id, name |-> server_info.name, host |-> server_info.host,
     last_success_time |-> IF "last_success_time" \in DOMAIN server_info
                           THEN Some(server_info.last_success_time) ELSE None,
     failed_count |-> GetOr(server_info, "failed_count", 0)]

DeletedServers(servers, ks) ==
    [i \in 1..Len(ks) |-> DeletedEntry(ks[i], servers.map[ks[i]])]

\* lines 418-436 of auto_cleanup_servers: ks are the marked keys
CleanupMarked(r, ks, t, path, io) ==
    IF ks = <<>> THEN [ret |-> <<>>, fs |-> r.fs, dc |-> r.dc]
    ELSE Store(r, Put(Put(r.data, "servers", DelAll(Servers(r.data), ks)),
                      "last_cleanup", Some(t)),
               path, io, DeletedServers(Servers(r.data), ks), <<>>, "", 0)

CleanupRead(r, t, path, io) ==
    IF r.exc # "none" THEN [ret |-> <<>>, fs |-> r.fs, dc |-> r.dc]
    ELSE IF Len(Servers(r.data).order) = 0 THEN [ret |-> <<>>, fs |-> r.fs, dc |-> r.dc]
    ELSE CleanupMarked(r, StaleKeys(Servers(r.data),
                                    t - (AUTO_CLEANUP_DAYS * 24 * 3600)),
                       t, path, io)

\* auto_cleanup_servers: ret is the list it returns
auto_cleanup_servers(fs, dc, t, path, io) ==
    CleanupRead(read_json(fs, dc, path, io), t, path, io)

-----------------------------------------------------------------------------
(* The states at start-up *)

\* an old-format file: a dict keyed by server name
OldEntries == { [name |-> "a", host |-> "h1"], [name |-> "2", host |-> "h2"] }

RECURSIVE OldDict(_)
OldDict(es) ==
    IF es = <<>> THEN EmptyDict
    ELSE LET e == es[Len(es)]
         IN  Put(OldDict(SubSeq(es, 1, Len(es) - 1)), e.name, e)

OldSeqs ==
    UNION { { es \in [1..n -> OldEntries] :
                \A i, j \in 1..n : i # j => es[i].name # es[j].name } :
            n \in 0..MaxOld }

\* what a group's file holds when the plugin is loaded: nothing, or what an
\* earlier version of the plugin (old format) left there
StartFiles == {Absent} \cup { Json(OldDict(es)) : es \in OldSeqs }

\* the coroutines of the event loop that call add_data
Procs == {"p1", "p2"}

\* a coroutine that has not called add_data
IdleCall ==
    [pc |-> "idle", name |-> "", host |-> "", data |-> EmptyDict, alias |-> "none",
     ret |-> FALSE, sid |-> "", seen |-> 0, had |-> FALSE]

InitWith(F) ==
    /\ files \in [Groups -> F]
    /\ DEFAULT_CONFIG = DefaultConfigLiteral
    /\ now = T0
    /\ assigned = [g \in Groups |-> <<>>]
    /\ removed = [g \in Groups |-> {}]
    /\ procs = [calls |-> [p \in Procs |-> IdleCall], writes |-> 0]
    /\ motd = <<>>
    /\ parsed = None

\* a fresh installation: no group has a file yet
Init == InitWith({Absent})

-----------------------------------------------------------------------------
(* Sequential calls of the registry API.  g is the group file, HS the hosts  *)
(* and IO the faults the caller may pass or meet.                            *)

\* the strings a caller may pass as an identifier
IdKeys == { Str(i) : i \in 1..(MaxId + 1) }
Idents == Names \cup IdKeys
OptNames == {None} \cup { Some(n) : n \in Names }
Opt(S) == {None} \cup { Some(x) : x \in S }

\* the keys of the servers of a group's file (none when it holds no document)
FileKeys(fs, g) ==
    IF fs[g].kind = "json" THEN DOMAIN Servers(fs[g].data).map ELSE {}

\* the next_id of a group's file (1 when it holds no document)
CurNext(fs, g) ==
    IF fs[g].kind = "json" /\ In(fs[g].data, "next_id")
    THEN Get(fs[g].data, "next_id") ELSE 1

\* the next_id of a group's document; a group without a file gets the one of
\* the document read_json creates for it
CurNextId(fs, dc, g) ==
    IF fs[g].kind = "json" THEN CurNext(fs, g) ELSE Get(dc, "next_id")

ReadJson(g, IO) ==
    \E io \in IO :
        LET r == read_json(files, DEFAULT_CONFIG, g, io)
        IN  /\ files' = r.fs
            /\ DEFAULT_CONFIG' = r.dc
            /\ UNCHANGED <<now, assigned, removed, procs, motd, parsed>>

AddData(g, HS, IO) ==
    \E name \in Names, host \in HS, io \in IO :
        LET r == add_data(files, DEFAULT_CONFIG, now, g, name, host, io)
        IN  /\ r.n <= MaxId
            /\ files' = r.fs
            /\ DEFAULT_CONFIG' = r.dc
            /\ assigned' = IF r.ret THEN [assigned EXCEPT ![g] = Append(@, r.n)]
                           ELSE assigned
            /\ UNCHANGED <<now, removed, procs, motd, parsed>>

DelData(g, IO) ==
    \E identifier \in Idents, io \in IO :
        LET r == del_data(files, DEFAULT_CONFIG, g, identifier, io)
        IN  /\ files' = r.fs
            /\ DEFAULT_CONFIG' = r.dc
            /\ removed' = IF r.ret THEN [removed EXCEPT ![g] = @ \cup {r.sid}]
                          ELSE removed
            /\ UNCHANGED <<now, assigned, procs, motd, parsed>>

UpdateData(g, HS, IO) ==
    \E identifier \in Idents, new_name \in OptNames, new_host \in Opt(HS), io \in IO :
        LET r == update_data(files, DEFAULT_CONFIG, g, identifier, new_name,
                             new_host, io)
        IN  /\ files' = r.fs
            /\ DEFAULT_CONFIG' = r.dc
            /\ UNCHANGED <<now, assigned, removed, procs, motd, parsed>>

UpdateServerStatus(g, IO) ==
    \E identifier \in Idents, success \in BOOLEAN, io \in IO :
        LET r == update_server_status(files, DEFAULT_CONFIG, now, g, identifier,
                                      success, io)
        IN  /\ r.n <= MaxFail
            /\ files' = r.fs
            /\ DEFAULT_CONFIG' = r.dc
            /\ UNCHANGED <<now, assigned, removed, procs, motd, parsed>>

AutoCleanupServers(g, IO) ==
    \E io \in IO :
        LET r == auto_cleanup_servers(files, DEFAULT_CONFIG, now, g, io)
        IN  /\ files' = r.fs
            /\ DEFAULT_CONFIG' = r.dc
            /\ removed' = [removed EXCEPT
                             ![g] = @ \cup (FileKeys(files, g) \ FileKeys(r.fs, g))]
            /\ UNCHANGED <<now, assigned, procs, motd, parsed>>

\* sequential calls on the one group file G1, every file operation succeeding
Next ==
    \/ ReadJson(G1, {NoFault})
    \/ AddData(G1, OneHost, {NoFault})
    \/ DelData(G1, {NoFault})
    \/ UpdateData(G1, OneHost, {NoFault})
    \/ UpdateServerStatus(G1, {NoFault})
    \/ AutoCleanupServers(G1, {NoFault})

Spec == Init /\ [][Next]_vars

\* Several groups, some with a file an earlier plugin version left (old format)
InitOld == InitWith(StartFiles)

NextOld ==
    \E g \in Groups :
        \/ ReadJson(g, {NoFault})
        \/ AddData(g, OneHost, {NoFault})
        \/ AutoCleanupServers(g, {NoFault})

SpecOld == InitOld /\ [][NextOld]_vars

-----------------------------------------------------------------------------
(* main.py: the chat commands *)

\* what a command sends back: event.plain_result(text), event.chain_result(images)
Plain(text) == [kind |-> "plain", text |-> text]
Chain(images) == [kind |-> "chain", images |-> images]

\* get_server_status(host) (script/get_server_info.py): it returns the server's
\* information, returns None, or raises
StatusOutcomes == {"info", "none", "raise"}

\* the exceptions of the model, all subclasses of Exception
Exceptions == {"IOError", "JSONDecodeError", "TypeError", "StatusError"}

\* an except clause naming the class cls catches exc
Catches(cls, exc) == cls = "Exception" \/ cls = exc

\* the faults one command can meet: its site-th call of the registry meets io.
\* After a fault no command calls the registry again, so one faulty site per
\* command covers every outcome.
NoOracle == [site |-> 0, io |-> NoFault]
NoFaults == {NoOracle}
\* a fault at one of the first n registry calls of a command, or none
Sites(n) == NoFaults \cup { [site |-> i, io |-> io] : i \in 1..n, io \in Faults }
FaultAt(f, n) == IF f.site = n THEN f.io ELSE NoFault

\* re.match(r'^[a-zA-Z0-9.:-]+$', host)
HostChars == "abcdefghijklmnopqrstuvwxyzABCDEFGHIJKLMNOPQRSTUVWXYZ0123456789.:-"
HostMatch(host) ==
    /\ Len(host) > 0
    /\ \A i \in 1..Len(host) :
          \E j \in 1..Len(HostChars) : SubSeq(host, i, i) = SubSeq(HostChars, j, j)

\* what the body of a command hands to its try statement: the replies it
\* yielded, the exception it raised ("none" when it returned), the files and
\* DEFAULT_CONFIG as it left them
Yielded(replies, fs, dc) == [replies |-> replies, exc |-> "none", fs |-> fs, dc |-> dc]
Threw(exc, fs, dc) == [replies |-> <<>>, exc |-> exc, fs |-> fs, dc |-> dc]

\* TryExcept with `except IOError` in the place of `except Exception`
TryExcept_OnlyIOError(body, cls, text) ==
    IF body.exc = "none"
    THEN [replies |-> body.replies, escaped |-> FALSE, fs |-> body.fs, dc |-> body.dc]
    ELSE IF Catches("IOError", body.exc)
    THEN [replies |-> Append(body.replies, Plain(text)), escaped |-> FALSE,
          fs |-> body.fs, dc |-> body.dc]
    ELSE [replies |-> body.replies, escaped |-> TRUE, fs |-> body.fs, dc |-> body.dc]

\* try: body / except cls: yield event.plain_result(text)
TryExcept(body, cls, text) ==
    IF body.exc = "none"
    THEN [replies |-> body.replies, escaped |-> FALSE, fs |-> body.fs, dc |-> body.dc]
    ELSE IF Catches(cls, body.exc)
    THEN [replies |-> Append(body.replies, Plain(text)), escaped |-> FALSE,
          fs |-> body.fs, dc |-> body.dc]
    ELSE [replies |-> body.replies, escaped |-> TRUE, fs |-> body.fs, dc |-> body.dc]

\* generate_server_info_image: its parameters without a default
ImageParams ==
    {"players_list", "latency", "server_name", "plays_max", "plays_online",
     "server_version", "motd_html"}

\* the keyword arguments get_img passes
ImageArgs ==
    {"players_list", "latency", "server_name", "plays_max", "plays_online",
     "server_version", "icon_base64"}

\* the call generate_server_info_image(**kwargs): a missing argument is a
\* TypeError, otherwise the base64 text of the PNG
generate_server_info_image(kwargs) ==
    IF ImageParams \subseteq kwargs
    THEN [exc |-> "none", img |-> "base64-png"]
    ELSE [exc |-> "TypeError", img |-> ""]

\* what get_img hands back: img is None or <<base64 text>>
Img(img, fs, dc) == [img |-> img, fs |-> fs, dc |-> dc]

\* `if json_path and server_id: await update_server_status(json_path, server_id, ok)`
NoteStatus(fs, dc, t, server_id, json_path, ok) ==
    IF json_path # None /\ server_id # None
    THEN update_server_status(fs, dc, t, json_path[1], server_id[1], ok, NoFault)
    ELSE [fs |-> fs, dc |-> dc]

GetImgNone(u) == Img(None, u.fs, u.dc)

GetImgDrawn(u, t, server_id, json_path, g) ==
    IF g.exc = "none" THEN Img(Some(g.img), u.fs, u.dc)
    ELSE GetImgNone(NoteStatus(u.fs, u.dc, t, server_id, json_path, FALSE))

\* get_img; server_id and json_path are None when falsy (mcgetter passes 0 and
\* nothing), st is what get_server_status does
get_img(fs, dc, t, name, host, server_id, json_path, st) ==
    IF st = "raise"
    THEN GetImgNone(NoteStatus(fs, dc, t, server_id, json_path, FALSE))
    ELSE IF st = "none"
    THEN GetImgNone(NoteStatus(fs, dc, t, server_id, json_path, FALSE))
    ELSE GetImgDrawn(NoteStatus(fs, dc, t, server_id, json_path, TRUE), t,
                     server_id, json_path, generate_server_info_image(ImageArgs))

\* lines 112-116 of mcgetter: the positions of the records the argument matches
McHits(servers, host) ==
    {i \in 1..Len(servers.order) :
        servers.map[servers.order[i]].name = host \/ servers.order[i] = host}

\* the key of the record /mc resolves its argument to, None when it matches none
McLookup(servers, host) ==
    IF McHits(servers, host) = {} THEN None
    ELSE Some(servers.order[Min(McHits(servers, host))])

McReply(i) ==
    IF i.img # None THEN Yielded(<<Chain(<<i.img[1]>>)>>, i.fs, i.dc)
    ELSE Yielded(<<Plain("no available server information")>>, i.fs, i.dc)

McQuery(r, t, server_id, host, st) ==
    IF server_id = None
    THEN McReply(get_img(r.fs, r.dc, t, "", host, None, None, st))
    ELSE McReply(get_img(r.fs, r.dc, t, Servers(r.data).map[server_id[1]].name,
                         Servers(r.data).map[server_id[1]].host, None, None, st))

McRead(r, t, host, st) ==
    IF r.exc # "none" THEN Threw(r.exc, r.fs, r.dc)
    ELSE McQuery(r, t, McLookup(Servers(r.data), host), host, st)

\* mcgetter handing the record's id and the group's path to get_img, which then
\* notes the outcome of the query in the record
mcgetter_NotingStatus(fs, dc, t, group_id, host, st, f) ==
    TryExcept(
        IF read_json(fs, dc, group_id, FaultAt(f, 1)).exc # "none"
        THEN McRead(read_json(fs, dc, group_id, FaultAt(f, 1)), t, host, st)
        ELSE IF McLookup(Servers(read_json(fs, dc, group_id, FaultAt(f, 1)).data), host) = None
        THEN McRead(read_json(fs, dc, group_id, FaultAt(f, 1)), t, host, st)
        ELSE McReply(get_img(read_json(fs, dc, group_id, FaultAt(f, 1)).fs,
                             read_json(fs, dc, group_id, FaultAt(f, 1)).dc, t, "", host,
                             McLookup(Servers(read_json(fs, dc, group_id, FaultAt(f, 1)).data), host),
                             Some(group_id), st)),
        "Exception", "error while querying")

\* /mc <name|id|host>
mcgetter(fs, dc, t, group_id, host, st, f) ==
    TryExcept(McRead(read_json(fs, dc, group_id, FaultAt(f, 1)), t, host, st),
              "Exception", "error while querying")

\* lines 172-175 of mcadd: the positions of the records with that host
HostHits(servers, host) ==
    {i \in 1..Len(servers.order) : servers.map[servers.order[i]].host = host}

\* lines 183-189 of mcadd
AddReply(r, name, host) ==
    IF r.exc # "none" THEN Threw(r.exc, r.fs, r.dc)
    ELSE IF \E k \in DOMAIN Servers(r.data).map :
               /\ Servers(r.data).map[k].name = name
               /\ Servers(r.data).map[k].host = host
    THEN Yielded(<<Plain("added with id")>>, r.fs, r.dc)
    ELSE Yielded(<<Plain("added")>>, r.fs, r.dc)

AddDone(a, group_id, name, host, f) ==
    IF a.ret THEN AddReply(read_json(a.fs, a.dc, group_id, FaultAt(f, 3)), name, host)
    ELSE Yielded(<<Plain("cannot add")>>, a.fs, a.dc)

\* AddChecked without the loop that looks for a record with the same host
AddChecked_NoHostCheck(r, t, group_id, name, host, f) ==
    IF r.exc # "none"
    THEN Yielded(<<Plain("error while checking the address")>>, r.fs, r.dc)
    ELSE AddDone(add_data(r.fs, r.dc, t, group_id, name, host, FaultAt(f, 2)),
                 group_id, name, host, f)

\* lines 167-191 of mcadd
AddChecked(r, t, group_id, name, host, f) ==
    IF r.exc # "none"
    THEN Yielded(<<Plain("error while checking the address")>>, r.fs, r.dc)
    ELSE IF HostHits(Servers(r.data), host) # {}
    THEN Yielded(<<Plain("address exists")>>, r.fs, r.dc)
    ELSE AddDone(add_data(r.fs, r.dc, t, group_id, name, host, FaultAt(f, 2)),
                 group_id, name, host, f)

\* lines 156-195 of mcadd
McAddBody(fs, dc, t, group_id, name, host, force, st, f) ==
    IF ~HostMatch(host) THEN Yielded(<<Plain("bad address")>>, fs, dc)
    ELSE IF st = "raise" THEN Threw("StatusError", fs, dc)
    ELSE IF st = "none" /\ ~force THEN Yielded(<<Plain("pre-query failed")>>, fs, dc)
    ELSE AddChecked(read_json(fs, dc, group_id, FaultAt(f, 1)), t, group_id, name,
                    host, f)

\* /mcadd <name> <host> [force]
mcadd(fs, dc, t, group_id, name, host, force, st, f) ==
    TryExcept(McAddBody(fs, dc, t, group_id, name, host, force, st, f),
              "Exception", "error while adding")

DelReply(d) ==
    IF d.ret THEN Yielded(<<Plain("deleted")>>, d.fs, d.dc)
    ELSE Yielded(<<Plain("cannot delete")>>, d.fs, d.dc)

\* /mcdel <name|id>
mcdel(fs, dc, group_id, identifier, f) ==
    TryExcept(DelReply(del_data(fs, dc, group_id, identifier, FaultAt(f, 1))),
              "Exception", "error while deleting")

UpInfo(i) ==
    IF i.ret # None THEN Yielded(<<Plain("updated with id")>>, i.fs, i.dc)
    ELSE Yielded(<<Plain("updated")>>, i.fs, i.dc)

UpDone(u, group_id, identifier, f) ==
    IF u.ret
    THEN UpInfo(get_server_info(u.fs, u.dc, group_id, identifier, FaultAt(f, 2)))
    ELSE Yielded(<<Plain("cannot update")>>, u.fs, u.dc)

\* lines 262-282 of mcup
McUpBody(fs, dc, group_id, identifier, new_name, new_host, f) ==
    IF ~Truthy(new_name) /\ ~Truthy(new_host)
    THEN Yielded(<<Plain("nothing to update")>>, fs, dc)
    ELSE IF Truthy(new_host) /\ ~HostMatch(new_host[1])
    THEN Yielded(<<Plain("bad address")>>, fs, dc)
    ELSE UpDone(update_data(fs, dc, group_id, identifier, new_name, new_host,
                            FaultAt(f, 1)),
                group_id, identifier, f)

\* /mcup <name|id> [new_name] [new_host]
mcup(fs, dc, group_id, identifier, new_name, new_host, f) ==
    TryExcept(McUpBody(fs, dc, group_id, identifier, new_name, new_host, f),
              "Exception", "error while updating")

ListReply(l) ==
    IF Len(l.ret.order) = 0 THEN Yielded(<<Plain("no saved servers")>>, l.fs, l.dc)
    ELSE Yielded(<<Plain("server list")>>, l.fs, l.dc)

\* /mclist
mclist(fs, dc, group_id, f) ==
    TryExcept(ListReply(get_all_servers(fs, dc, group_id, FaultAt(f, 1))),
              "Exception", "error while listing")

\* the arguments of the commands
CmdHosts == Hosts \cup {"h!"}
TwoNames == {"a", "2"}
FewNames == {"a"}
FewHosts == OneHost \cup {"h!"}
McArgs == Idents \cup Hosts

\* the ids add_data handed out between fs and fs2, in order
RECURSIVE NewIds(_, _, _, _)
NewIds(fs, fs2, g, n) ==
    IF n >= CurNext(fs2, g) THEN <<>>
    ELSE IF Str(n) \in FileKeys(fs2, g) \ FileKeys(fs, g)
    THEN <<n>> \o NewIds(fs, fs2, g, n + 1)
    ELSE NewIds(fs, fs2, g, n + 1)

\* a command ran and left c
Ran(c, g) ==
    /\ files' = c.fs
    /\ DEFAULT_CONFIG' = c.dc
    /\ assigned' = [assigned EXCEPT ![g] = @ \o NewIds(files, c.fs, g, 1)]
    /\ removed' = [removed EXCEPT ![g] = @ \cup (FileKeys(files, g) \ FileKeys(c.fs, g))]
    /\ UNCHANGED <<now, procs, motd, parsed>>

McGetter(g, F) ==
    \E host \in McArgs, st \in StatusOutcomes, f \in F :
        Ran(mcgetter(files, DEFAULT_CONFIG, now, g, host, st, f), g)

McAdd(g, NS, HS, F) ==
    \E name \in NS, host \in HS, force \in BOOLEAN,
       st \in StatusOutcomes, f \in F :
        /\ CurNextId(files, DEFAULT_CONFIG, g) <= MaxId
        /\ Ran(mcadd(files, DEFAULT_CONFIG, now, g, name, host, force, st, f), g)

McDel(g, F) ==
    \E identifier \in Idents, f \in F :
        Ran(mcdel(files, DEFAULT_CONFIG, g, identifier, f), g)

McUp(g, NS, HS, F) ==
    \E identifier \in Idents, new_name \in NS, new_host \in HS, f \in F :
        Ran(mcup(files, DEFAULT_CONFIG, g, identifier, new_name, new_host, f), g)

McList(g, F) ==
    \E f \in F : Ran(mclist(files, DEFAULT_CONFIG, g, f), g)

\* time.time() between two commands
Tick ==
    /\ now < T0 + MaxTick
    /\ now' = now + 1
    /\ UNCHANGED <<files, DEFAULT_CONFIG, assigned, removed, procs, motd, parsed>>

\* chat commands in one group, one after the other, file operations succeeding
\* (the names /mcadd and /mcup are given are those of TwoNames)
NextCmd ==
    \/ McGetter(G1, NoFaults)
    \/ McAdd(G1, TwoNames, CmdHosts, NoFaults)
    \/ McDel(G1, NoFaults)
    \/ McUp(G1, Opt(TwoNames), Opt(CmdHosts), NoFaults)
    \/ McList(G1, NoFaults)
    \/ Tick

SpecCmd == Init /\ [][NextCmd]_vars

\* chat commands in one group, any file operation of a command may fail (the
\* failing /mcadd and /mcup take their arguments from FewNames and FewHosts)
NextFault ==
    \/ McGetter(G1, Sites(1))
    \/ McAdd(G1, TwoNames, CmdHosts, NoFaults)
    \/ McAdd(G1, FewNames, FewHosts, Sites(3))
    \/ McDel(G1, Sites(1))
    \/ McUp(G1, Opt(TwoNames), Opt(CmdHosts), NoFaults)
    \/ McUp(G1, Opt(FewNames), Opt(FewHosts), Sites(2))
    \/ McList(G1, Sites(1))
    \/ Tick

SpecFault == Init /\ [][NextFault]_vars

-----------------------------------------------------------------------------
(* Two coroutines calling add_data on one group file.  A coroutine gives up   *)
(* the event loop where it awaits aiofiles: at open(), and at the read or the *)
(* write and close that follow.  The code between two such points runs in one *)
(* step.  open(path, 'w') leaves the file empty until the text is flushed.    *)

\* the dict json.dumps serialises for a caller that holds data: the dict itself,
\* with the parts it shares with DEFAULT_CONFIG as they are now
Live(dc, alias, data) ==
    IF alias = "all" THEN dc
    ELSE IF alias = "servers" THEN Put(data, "servers", Get(dc, "servers"))
    ELSE data

\* lines 194-216 of add_data, from the return of read_json (r) to the call of
\* write_json: the coroutine c afterwards
AfterRead(c, r, t, seen, had) ==
    IF r.exc # "none" THEN [c EXCEPT !.pc = "done", !.ret = FALSE]
    ELSE IF get_server_by_name(r.data, c.name) # None
    THEN [c EXCEPT !.pc = "done", !.ret = FALSE]
    ELSE [c EXCEPT !.pc = "write_open",
                   !.data = AddedData(r.data, c.name, c.host, t),
                   !.alias = r.alias,
                   !.sid = Str(Get(r.data, "next_id")),
                   !.seen = seen,
                   !.had = had]

\* DEFAULT_CONFIG after those lines
AfterReadConfig(c, r, t) ==
    IF r.exc # "none" THEN r.dc
    ELSE IF get_server_by_name(r.data, c.name) # None THEN r.dc
    ELSE Aliased(r.dc, r.alias, AddedData(r.data, c.name, c.host, t))

\* add_data is called: read_json looks whether the file exists (line 116)
ConcCall(p, g) ==
    /\ procs.calls[p].pc \in {"idle", "done"}
    /\ CurNextId(files, DEFAULT_CONFIG, g) <= MaxId
    /\ \E name \in Names, host \in OneHost :
          procs' = [procs EXCEPT !.calls[p] =
                       [IdleCall EXCEPT !.name = name, !.host = host,
                                        !.pc = IF files[g].kind = "absent"
                                               THEN "create_open" ELSE "read"]]
    /\ UNCHANGED <<files, DEFAULT_CONFIG, now, assigned, removed, motd, parsed>>

\* the file is read and parsed (lines 121-139), add_data goes on to its write
ConcRead(p, g) ==
    /\ procs.calls[p].pc = "read"
    /\ procs' = [procs EXCEPT !.calls[p] =
                    AfterRead(@, read_json(files, DEFAULT_CONFIG, g, NoFault), now,
                              procs.writes, files[g].kind = "json")]
    /\ DEFAULT_CONFIG' = AfterReadConfig(procs.calls[p],
                             read_json(files, DEFAULT_CONFIG, g, NoFault), now)
    /\ UNCHANGED <<files, now, assigned, removed, motd, parsed>>

\* write_json opens the file for writing: the file is empty
ConcOpen(p, g) ==
    /\ procs.calls[p].pc \in {"create_open", "write_open"}
    /\ files' = [files EXCEPT ![g] = Corrupt]
    /\ procs' = [procs EXCEPT !.calls[p].pc =
                    IF @ = "create_open" THEN "create_flush" ELSE "write_flush"]
    /\ UNCHANGED <<DEFAULT_CONFIG, now, assigned, removed, motd, parsed>>

\* read_json saves DEFAULT_CONFIG in the file that did not exist and returns
\* DEFAULT_CONFIG (lines 118-119), add_data goes on to its write
ConcCreateFlush(p, g) ==
    /\ procs.calls[p].pc = "create_flush"
    /\ files' = write_json(files, g, DEFAULT_CONFIG, "ok").fs
    /\ procs' = [procs EXCEPT
                    !.calls[p] = AfterRead(@, Returned(DEFAULT_CONFIG, "all", files',
                                                       DEFAULT_CONFIG),
                                           now, procs.writes + 1, FALSE),
                    !.writes = @ + 1]
    /\ DEFAULT_CONFIG' = AfterReadConfig(procs.calls[p],
                             Returned(DEFAULT_CONFIG, "all", files', DEFAULT_CONFIG), now)
    /\ UNCHANGED <<now, assigned, removed, motd, parsed>>

\* add_data's write_json saves the dict the call holds and add_data returns True
ConcWriteFlush(p, g) ==
    /\ procs.calls[p].pc = "write_flush"
    /\ files' = write_json(files, g, Live(DEFAULT_CONFIG, procs.calls[p].alias,
                                          procs.calls[p].data), "ok").fs
    /\ procs' = [procs EXCEPT !.calls[p].pc = "done", !.calls[p].ret = TRUE,
                              !.writes = @ + 1]
    /\ UNCHANGED <<DEFAULT_CONFIG, now, assigned, removed, motd, parsed>>

NextConc ==
    \E p \in Procs :
        \/ ConcCall(p, G1)
        \/ ConcRead(p, G1)
        \/ ConcOpen(p, G1)
        \/ ConcCreateFlush(p, G1)
        \/ ConcWriteFlush(p, G1)

SpecConc == Init /\ [][NextConc]_vars

-----------------------------------------------------------------------------
(* Two coroutines calling add_data, del_data, update_data and                 *)
(* update_server_status on one group file that exists.  Each call reads the   *)
(* file, runs to its write_json without giving up the event loop, and writes  *)
(* in two steps: open(path, 'w') empties the file, the flush stores the       *)
(* document the call made from the document it read.                          *)

\* the file read_json has created for a group
InitMix == InitWith({Json(DefaultConfigLiteral)})

\* the names the coroutines use
MixNames == Names

\* a call and its arguments
MixCallOf(op, identifier, name, host, success) ==
    [op |-> op, identifier |-> identifier, name |-> name, host |-> host,
     success |-> success]

\* the calls a coroutine makes (the status it reports is a success: a failure
\* changes failed_count and last_failed_time only)
MixCalls ==
    { MixCallOf("add_data", "", Some(n), Some(h), TRUE) : n \in MixNames, h \in OneHost }
    \cup { MixCallOf("del_data", i, None, None, TRUE) : i \in IdKeys \cup MixNames }
    \cup { MixCallOf("update_data", i, n, h, TRUE) :
              i \in IdKeys \cup MixNames, n \in Opt(MixNames), h \in Opt(OneHost) }
    \cup { MixCallOf("update_server_status", i, None, None, TRUE) :
              i \in IdKeys \cup MixNames }

\* the call c from its read_json to its return, run on the files fs without
\* giving up the event loop: what it returns and the files it leaves
MixRun(c, fs, dc, t, g) ==
    IF c.op = "add_data" THEN add_data(fs, dc, t, g, c.name[1], c.host[1], NoFault)
    ELSE IF c.op = "del_data" THEN del_data(fs, dc, g, c.identifier, NoFault)
    ELSE IF c.op = "update_data"
    THEN update_data(fs, dc, g, c.identifier, c.name, c.host, NoFault)
    ELSE update_server_status(fs, dc, t, g, c.identifier, c.success, NoFault)

\* the coroutine after the read of its call, r what the call does from there:
\* at its write_json, holding the document it is going to save, or returned
MixAfterRead(r, g) ==
    IF r.ret THEN [IdleCall EXCEPT !.pc = "write_open", !.data = r.fs[g].data]
    ELSE IdleCall

\* a call is made, the file is read and parsed (an emptied file raises
\* JSONDecodeError and the call returns False); the call goes on to its
\* write_json or returns False
MixRead(p, g) ==
    /\ procs.calls[p].pc = "idle"
    /\ \E c \in MixCalls :
          /\ c.op = "add_data" => CurNextId(files, DEFAULT_CONFIG, g) <= MaxId
          /\ procs' = [procs EXCEPT !.calls[p] =
                          MixAfterRead(MixRun(c, files, DEFAULT_CONFIG, now, g), g)]
    /\ UNCHANGED <<files, DEFAULT_CONFIG, now, assigned, removed, motd, parsed>>

\* write_json opens the file for writing: the file is empty
MixOpen(p, g) ==
    /\ procs.calls[p].pc = "write_open"
    /\ files' = [files EXCEPT ![g] = Corrupt]
    /\ procs' = [procs EXCEPT !.calls[p].pc = "write_flush"]
    /\ UNCHANGED <<DEFAULT_CONFIG, now, assigned, removed, motd, parsed>>

\* write_json stores the document the call holds and the call returns True
MixFlush(p, g) ==
    /\ procs.calls[p].pc = "write_flush"
    /\ files' = write_json(files, g, procs.calls[p].data, "ok").fs
    /\ procs' = [procs EXCEPT !.calls[p] = IdleCall]
    /\ UNCHANGED <<DEFAULT_CONFIG, now, assigned, removed, motd, parsed>>

NextMix ==
    \E p \in Procs :
        \/ MixRead(p, G1)
        \/ MixOpen(p, G1)
        \/ MixFlush(p, G1)

SpecMix == InitMix /\ [][NextMix]_vars

-----------------------------------------------------------------------------
(* get_img.py: parse_motd_colors.  A string is a sequence of characters; a    *)
(* segment is the pair (text, RGB).                                           *)

\* MOTDs of at most this many characters are parsed
MaxMotd == 4

\* the characters of the MOTDs: the section sign, two colour codes (a is also a
\* letter of a text), a character that is no colour code, a blank and a newline
MotdChars == {"§", "a", "r", "x", " ", "\n"}

Motds == UNION { [1..n -> MotdChars] : n \in 0..MaxMotd }

\* the characters str.strip() removes
Whitespace == {" ", "\n"}

\* not s.strip()
IsBlank(s) == \A i \in 1..Len(s) : s[i] \in Whitespace

White == <<255, 255, 255>>

\* line 49: the placeholder of a MOTD without text, in grey
Placeholder == <<<<"no server description">>, <<150, 150, 150>>>>

color_map ==
    ("0" :> <<0, 0, 0>>) @@ ("1" :> <<0, 0, 170>>) @@ ("2" :> <<0, 170, 0>>)
    @@ ("3" :> <<0, 170, 170>>) @@ ("4" :> <<170, 0, 0>>) @@ ("5" :> <<170, 0, 170>>)
    @@ ("6" :> <<255, 170, 0>>) @@ ("7" :> <<170, 170, 170>>) @@ ("8" :> <<85, 85, 85>>)
    @@ ("9" :> <<85, 85, 255>>) @@ ("a" :> <<85, 255, 85>>) @@ ("b" :> <<85, 255, 255>>)
    @@ ("c" :> <<255, 85, 85>>) @@ ("d" :> <<255, 85, 255>>) @@ ("e" :> <<255, 255, 85>>)
    @@ ("f" :> <<255, 255, 255>>) @@ ("r" :> White)

\* the characters [0-9a-fr] of the pattern
PatternChars ==
    {"0", "1", "2", "3", "4", "5", "6", "7", "8", "9", "a", "b", "c", "d", "e", "f", "r"}

\* s.split('\n'), from position i on; cur is the line begun, acc the lines done
RECURSIVE SplitLines(_, _, _, _)
SplitLines(s, i, cur, acc) ==
    IF i > Len(s) THEN Append(acc, cur)
    ELSE IF s[i] = "\n" THEN SplitLines(s, i + 1, <<>>, Append(acc, cur))
    ELSE SplitLines(s, i + 1, Append(cur, s[i]), acc)

\* re.split(r'§([0-9a-fr])', line), from position i on: the texts between the
\* matches, each match replaced by the character of its group
RECURSIVE ReSplit(_, _, _, _)
ReSplit(line, i, cur, acc) ==
    IF i > Len(line) THEN Append(acc, cur)
    ELSE IF line[i] = "§" /\ i + 1 <= Len(line) /\ line[i + 1] \in PatternChars
    THEN ReSplit(line, i + 2, <<>>, acc \o <<cur, <<line[i + 1]>>>>)
    ELSE ReSplit(line, i + 1, Append(cur, line[i]), acc)

\* part in color_map
InColorMap(part) == Len(part) = 1 /\ part[1] \in DOMAIN color_map

\* Appended without the test `if part`
Appended_EmptyToo(result, part, current_color) ==
    Append(result, <<part, current_color>>)

\* lines 82-83 and 90-91: if part: result.append((part, current_color))
Appended(result, part, current_color) ==
    IF part # <<>> THEN Append(result, <<part, current_color>>) ELSE result

\* lines 76-92, the while loop (parts[i] here is parts[i-1] there): the result
\* and the number n of iterations made
RECURSIVE WhileLoop(_, _, _, _, _)
WhileLoop(parts, i, current_color, result, n) ==
    IF ~(i <= Len(parts)) THEN [result |-> result, n |-> n]
    ELSE IF i + 1 <= Len(parts) /\ InColorMap(parts[i + 1])
    THEN WhileLoop(parts, i + 2, color_map[parts[i + 1][1]],
                   Appended(result, parts[i], current_color), n + 1)
    ELSE WhileLoop(parts, i + 1, current_color,
                   Appended(result, parts[i], current_color), n + 1)

\* lines 66-92, the loop over the lines from the k-th on
RECURSIVE ForLines(_, _, _)
ForLines(lines, k, result) ==
    IF k > Len(lines) THEN result
    ELSE IF IsBlank(lines[k])
    THEN ForLines(lines, k + 1, Append(result, <<<<>>, White>>))
    ELSE ForLines(lines, k + 1,
                  WhileLoop(ReSplit(lines[k], 1, <<>>, <<>>), 1, White, result, 0).result)

parse_motd_colors(m) ==
    IF IsBlank(m) THEN <<Placeholder>>
    ELSE ForLines(SplitLines(m, 1, <<>>, <<>>), 1, <<>>)

\* a status arrives with its MOTD
InitMotd ==
    /\ files \in [Groups -> {Absent}]
    /\ DEFAULT_CONFIG = DefaultConfigLiteral
    /\ now = T0
    /\ assigned = [g \in Groups |-> <<>>]
    /\ removed = [g \in Groups |-> {}]
    /\ procs = [calls |-> [p \in Procs |-> IdleCall], writes |-> 0]
    /\ motd \in Motds
    /\ parsed = None

\* parse_motd_colors(motd) is called
ParseMotd ==
    /\ parsed = None
    /\ parsed' = Some(parse_motd_colors(motd))
    /\ UNCHANGED <<files, DEFAULT_CONFIG, now, assigned, removed, procs, motd>>

NextMotd == ParseMotd

SpecMotd == InitMotd /\ [][NextMotd]_vars

-----------------------------------------------------------------------------
(* Properties of the registry *)

HasDoc(fs, g) == fs[g].kind = "json"
\* the records of a group's file, as a dict (empty when it holds no document)
Recs(fs, g) == IF HasDoc(fs, g) THEN Servers(fs[g].data) ELSE EmptyDict
\* the names of a group's records
RecNames(fs, g) == { Recs(fs, g).map[k].name : k \in FileKeys(fs, g) }
\* the file of g holds exactly what it held in fs, less the record under key k
RemovedExactly(fs, fs2, g, k) ==
    /\ HasDoc(fs2, g)
    /\ fs2[g].data = Put(fs[g].data, "servers", Del(Recs(fs, g), k))
    /\ \A h \in Groups \ {g} : fs2[h] = fs[h]
\* the key of the first record, in document order, named name
FirstNamed(fs, g, name) ==
    Recs(fs, g).order[Min(NameHits(Recs(fs, g), name))]

\* C1: no two records of a group's document have the same name.
C1_NamesUnique ==
    \A g \in Groups : \A k1, k2 \in FileKeys(files, g) :
        k1 # k2 => Recs(files, g).map[k1].name # Recs(files, g).map[k2].name

\* C2, add_data: a successful call stores the record under str(next_id), an id
\* larger than every id handed out before and the id of no record present or
\* deleted, and leaves next_id one larger; a failed call leaves next_id alone.
C2_Add(g) ==
    \A name \in Names, host \in OneHost :
        LET r == add_data(files, DEFAULT_CONFIG, now, g, name, host, NoFault)
            n == CurNextId(files, DEFAULT_CONFIG, g)
        IN  IF r.ret
            THEN /\ r.sid = Str(n)
                 /\ r.sid \in FileKeys(r.fs, g)
                 /\ Recs(r.fs, g).map[r.sid].id = n
                 /\ Recs(r.fs, g).map[r.sid].name = name
                 /\ CurNextId(r.fs, r.dc, g) = n + 1
                 /\ r.sid \notin FileKeys(files, g)
                 /\ r.sid \notin removed[g]
                 /\ \A i \in 1..Len(assigned[g]) : assigned[g][i] < n
            ELSE CurNextId(r.fs, r.dc, g) = n

\* C2, the other calls: del_data, update_data and update_server_status leave
\* next_id alone, whatever they return.
C2_Others(g) ==
    LET n == CurNextId(files, DEFAULT_CONFIG, g)
    IN  /\ \A identifier \in Idents :
            LET r == del_data(files, DEFAULT_CONFIG, g, identifier, NoFault)
            IN  CurNextId(r.fs, r.dc, g) = n
        /\ \A identifier \in Idents, new_name \in OptNames, new_host \in Opt(OneHost) :
            LET r == update_data(files, DEFAULT_CONFIG, g, identifier, new_name,
                                 new_host, NoFault)
            IN  CurNextId(r.fs, r.dc, g) = n
        /\ \A identifier \in Idents, success \in BOOLEAN :
            LET r == update_server_status(files, DEFAULT_CONFIG, now, g, identifier,
                                          success, NoFault)
            IN  CurNextId(r.fs, r.dc, g) = n

\* C2: in a sequential run on one group file, a successful add_data gives the
\* record the id next_id and raises next_id by one, every other call and a failed
\* add_data leave next_id unchanged, the ids handed out strictly increase and the
\* id of a deleted record is never handed out again.
C2_IdAssignment ==
    /\ C2_Add(G1)
    /\ C2_Others(G1)
    /\ \A i, j \in 1..Len(assigned[G1]) : i < j => assigned[G1][i] < assigned[G1][j]

\* C2 witness: two ids were handed out and a record was deleted since.
C2_Witness ==
    /\ Len(assigned[G1]) >= 2
    /\ removed[G1] # {}
    /\ CurNextId(files, DEFAULT_CONFIG, G1) = 3

\* C3: add_data with a name some record of the group has returns False and
\* leaves the group's file (servers and next_id) as it was.
C3_DuplicateName ==
    \A name \in RecNames(files, G1), host \in Hosts :
        LET r == add_data(files, DEFAULT_CONFIG, now, G1, name, host, NoFault)
        IN  r.ret = FALSE /\ r.fs = files

\* C3 witness: the document holds a record that add_data stored, and add_data
\* with its name is refused.
C3_Witness ==
    /\ Len(assigned[G1]) >= 1
    /\ \E name \in RecNames(files, G1) :
          ~add_data(files, DEFAULT_CONFIG, now, G1, name, "h1", NoFault).ret

\* C4 as claimed: for every record r, del_data with r's key and del_data with
\* r's name both return True and remove exactly r; del_data with a string that
\* is neither a key nor a name returns False and changes nothing.
C4_DelByIdOrName ==
    /\ \A k \in FileKeys(files, G1) :
          LET byId == del_data(files, DEFAULT_CONFIG, G1, k, NoFault)
              byName == del_data(files, DEFAULT_CONFIG, G1,
                                 Recs(files, G1).map[k].name, NoFault)
          IN  /\ byId.ret /\ RemovedExactly(files, byId.fs, G1, k)
              /\ byName.ret /\ RemovedExactly(files, byName.fs, G1, k)
    /\ \A identifier \in Idents \ (FileKeys(files, G1) \cup RecNames(files, G1)) :
          LET r == del_data(files, DEFAULT_CONFIG, G1, identifier, NoFault)
          IN  HasDoc(files, G1) => (r.ret = FALSE /\ r.fs = files)

\* C4 amended: del_data with a key of the document returns True and removes
\* exactly the record under that key; del_data with a string that is no key but
\* the name of a record returns True and removes exactly the first record, in
\* document order, with that name; every other record and next_id are unchanged.
\* del_data with a string that is neither returns False and changes nothing.
C4_DelIdFirst ==
    \A identifier \in Idents :
        LET r == del_data(files, DEFAULT_CONFIG, G1, identifier, NoFault)
        IN  HasDoc(files, G1) =>
              IF identifier \in FileKeys(files, G1)
              THEN r.ret /\ RemovedExactly(files, r.fs, G1, identifier)
              ELSE IF identifier \in RecNames(files, G1)
              THEN r.ret /\ RemovedExactly(files, r.fs, G1,
                                           FirstNamed(files, G1, identifier))
              ELSE r.ret = FALSE /\ r.fs = files

\* C4 witness: the document holds a record k1 whose name is the key k2 of another
\* record, and del_data with that string removes k2 and keeps k1.
C4_Witness ==
    \E k1, k2 \in FileKeys(files, G1) :
        /\ k1 # k2
        /\ Recs(files, G1).map[k1].name = k2
        /\ del_data(files, DEFAULT_CONFIG, G1, k2, NoFault).ret
        /\ FileKeys(del_data(files, DEFAULT_CONFIG, G1, k2, NoFault).fs, G1)
              = FileKeys(files, G1) \ {k2}

\* C6: read_json on a path without a file creates the file holding, and
\* returns, the document {version 2.1, next_id 1, servers {}, last_cleanup None},
\* whatever was done before on other groups' files.
C6_FreshDocument ==
    \A g \in Groups :
        files[g] = Absent =>
            LET r == read_json(files, DEFAULT_CONFIG, g, NoFault)
            IN  /\ r.exc = "none"
                /\ r.data = DefaultConfigLiteral
                /\ r.fs[g] = Json(DefaultConfigLiteral)

RecordFields ==
    {"id", "name", "host", "created_time", "last_success_time",
     "last_failed_time", "failed_count"}
DocFields == {"version", "next_id", "servers", "last_cleanup"}

WellFormed(data) ==
    /\ DocFields \subseteq DOMAIN data.map
    /\ \A k \in DOMAIN Servers(data).map :
          RecordFields \subseteq DOMAIN Servers(data).map[k]

\* C8: every document read_json returns, and every document a call wrote to a
\* file, has the four document fields and seven fields in every record.
C8_WellFormed ==
    \A g \in Groups :
        LET r == read_json(files, DEFAULT_CONFIG, g, NoFault)
        IN  /\ r.exc = "none" => WellFormed(r.data)
            /\ (HasDoc(files, g) /\ In(files[g].data, "version"))
                  => WellFormed(files[g].data)

\* the record under key k of the group's file is in fs2 as it is in files
SameRecord(fs2, k) ==
    /\ k \in FileKeys(fs2, G1)
    /\ Recs(fs2, G1).map[k] = Recs(files, G1).map[k]

\* the record under key k of the group's file is in fs2 under k, with its id
\* and its creation time
SameId(fs2, k) ==
    /\ k \in FileKeys(fs2, G1)
    /\ Recs(fs2, G1).map[k].id = Recs(files, G1).map[k].id
    /\ Recs(fs2, G1).map[k].created_time = Recs(files, G1).map[k].created_time

\* fs2 holds the last_cleanup the group's file holds
SameCleanup(fs2) ==
    HasDoc(files, G1) =>
        /\ HasDoc(fs2, G1)
        /\ Get(fs2[G1].data, "last_cleanup") = Get(files[G1].data, "last_cleanup")

\* the argument of /mcdel resolves to the record under key k
ResolvesTo(identifier, k) ==
    IF identifier \in FileKeys(files, G1) THEN k = identifier
    ELSE identifier \in RecNames(files, G1) /\ k = FirstNamed(files, G1, identifier)

OneReply(c) == Len(c.replies) = 1 /\ ~c.escaped

C10_ImageReply ==
    \A host \in McArgs :
        LET c == mcgetter(files, DEFAULT_CONFIG, now, G1, host, "info", NoOracle)
        IN  Len(c.replies) = 1 /\ c.replies[1].kind = "chain"

\* two calls of add_data with distinct names returned True, each read the file
\* when it held a document, and no write came between their reads
BothAdded(p, q) ==
    /\ p # q
    /\ procs.calls[p].pc = "done" /\ procs.calls[q].pc = "done"
    /\ procs.calls[p].ret /\ procs.calls[q].ret
    /\ procs.calls[p].name # procs.calls[q].name
    /\ procs.calls[p].had /\ procs.calls[q].had
    /\ procs.calls[p].seen = procs.calls[q].seen

\* C5: when two add_data calls with distinct names on one file interleave so
\* that both read the document before either writes, both return True, both
\* took the same id, and the document they leave holds exactly one of the two
\* records (under that id, with next_id one past it): one update is lost.
C5_LostUpdate ==
    \A p, q \in Procs :
        BothAdded(p, q) =>
            /\ HasDoc(files, G1)
            /\ procs.calls[p].sid = procs.calls[q].sid
            /\ Recs(files, G1).map[procs.calls[p].sid].name
                  \in {procs.calls[p].name, procs.calls[q].name}
            /\ ~({procs.calls[p].name, procs.calls[q].name} \subseteq RecNames(files, G1))
            /\ Str(CurNext(files, G1) - 1) = procs.calls[p].sid

\* C5 witness: such an interleaving happened; the record of p1's call is not
\* in the document although the call returned True.
C5_Witness ==
    /\ BothAdded("p1", "p2")
    /\ procs.calls["p1"].name \notin RecNames(files, G1)
    /\ procs.calls["p2"].name \in RecNames(files, G1)

\* the hosts of a group's records
RecHosts(fs, g) == { Recs(fs, g).map[k].host : k \in FileKeys(fs, g) }

\* the group's file holds a record with that name and that host
Holds(fs, g, name, host) ==
    \E k \in FileKeys(fs, g) :
        Recs(fs, g).map[k].name = name /\ Recs(fs, g).map[k].host = host

\* C11 as claimed: /mcadd with force=True, a well-formed host and a name and a
\* host no record of the group has, stores the record whatever
\* get_server_status returns or raises.
C11_ForceAdds ==
    \A name \in Names \ RecNames(files, G1), host \in Hosts \ RecHosts(files, G1),
       st \in StatusOutcomes :
        Holds(mcadd(files, DEFAULT_CONFIG, now, G1, name, host, TRUE, st, NoOracle).fs,
              G1, name, host)

\* C11, the part that holds: the record is stored when get_server_status
\* returns, with information or with None.
C11_ForceAddsOnReturn ==
    \A name \in Names \ RecNames(files, G1), host \in Hosts \ RecHosts(files, G1),
       st \in StatusOutcomes \ {"raise"} :
        Holds(mcadd(files, DEFAULT_CONFIG, now, G1, name, host, TRUE, st, NoOracle).fs,
              G1, name, host)

\* every way the file operations of one call may fail
AllFaults == [rd : BOOLEAN, rw : {"ok", "pre", "trunc"}, w : {"ok", "pre", "trunc"}]

\* the call's read_json raises; or the call gets to its write_json (as the same
\* call without a failure does, wrote) and the write fails
CallFails(fs, path, io, wrote) ==
    \/ read_json(fs, DEFAULT_CONFIG, path, io).exc # "none"
    \/ io.w # "ok" /\ wrote

\* one day more than the cleanup period, in seconds
Later == (AUTO_CLEANUP_DAYS + 1) * 24 * 3600

\* C12 on the file of group `path` of fs
C12_On(fs, path) ==
    \A io \in AllFaults :
        /\ read_json(fs, DEFAULT_CONFIG, path, io).exc
              \in {"none", "IOError", "JSONDecodeError"}
        /\ \A name \in Names :
              LET r == add_data(fs, DEFAULT_CONFIG, now, path, name, "h1", io)
                  ok == add_data(fs, DEFAULT_CONFIG, now, path, name, "h1", NoFault)
              IN  r.ret \in BOOLEAN /\ (CallFails(fs, path, io, ok.ret) => r.ret = FALSE)
        /\ \A identifier \in Idents :
              LET r == del_data(fs, DEFAULT_CONFIG, path, identifier, io)
                  ok == del_data(fs, DEFAULT_CONFIG, path, identifier, NoFault)
              IN  r.ret \in BOOLEAN /\ (CallFails(fs, path, io, ok.ret) => r.ret = FALSE)
        /\ \A identifier \in Idents, new_name \in Opt(FewNames), new_host \in Opt(OneHost) :
              LET r == update_data(fs, DEFAULT_CONFIG, path, identifier, new_name,
                                   new_host, io)
                  ok == update_data(fs, DEFAULT_CONFIG, path, identifier, new_name,
                                    new_host, NoFault)
              IN  r.ret \in BOOLEAN /\ (CallFails(fs, path, io, ok.ret) => r.ret = FALSE)
        /\ \A identifier \in Idents, success \in BOOLEAN :
              LET r == update_server_status(fs, DEFAULT_CONFIG, now, path, identifier,
                                            success, io)
                  ok == update_server_status(fs, DEFAULT_CONFIG, now, path, identifier,
                                             success, NoFault)
              IN  r.ret \in BOOLEAN /\ (CallFails(fs, path, io, ok.ret) => r.ret = FALSE)
        /\ \A identifier \in Idents :
              CallFails(fs, path, io, FALSE) =>
                  get_server_info(fs, DEFAULT_CONFIG, path, identifier, io).ret = None
        /\ CallFails(fs, path, io, FALSE) =>
              get_all_servers(fs, DEFAULT_CONFIG, path, io).ret = EmptyDict
        /\ \A t \in {now, now + Later} :
              LET ok == auto_cleanup_servers(fs, DEFAULT_CONFIG, t, path, NoFault)
              IN  CallFails(fs, path, io, ok.ret # <<>>) =>
                      auto_cleanup_servers(fs, DEFAULT_CONFIG, t, path, io).ret = <<>>

\* C12: whichever read, parse or write fails, add_data, del_data, update_data
\* and update_server_status return False, get_server_info returns None,
\* get_all_servers returns {} and auto_cleanup_servers returns []; the only
\* exceptions read_json raises (its own, and those of the write_json it calls)
\* are IOError and JSONDecodeError.  Checked on the group's file and on that
\* file replaced by each file an earlier version may have left.
C12_NeverRaise ==
    /\ C12_On(files, G1)
    /\ \A f \in StartFiles : C12_On([files EXCEPT ![G1] = f], G1)

\* C12 witness: the group's file is unreadable: read_json raises
\* JSONDecodeError, add_data returns False and get_all_servers returns {}.
C12_Witness ==
    /\ files[G1] = Corrupt
    /\ read_json(files, DEFAULT_CONFIG, G1, NoFault).exc = "JSONDecodeError"
    /\ ~add_data(files, DEFAULT_CONFIG, now, G1, "a", "h1", NoFault).ret
    /\ get_all_servers(files, DEFAULT_CONFIG, G1, NoFault).ret = EmptyDict

\* the key of the record an identifier resolves to in a group's file: the
\* record under that id key, else the first record of that name, else None
Resolve(fs, g, identifier) ==
    IF identifier \in FileKeys(fs, g) THEN Some(identifier)
    ELSE IF identifier \in RecNames(fs, g) THEN Some(FirstNamed(fs, g, identifier))
    ELSE None

\* the sequences of outcomes (True: the query succeeded) of up to MaxUpd updates
Outcomes == UNION { [1..n -> BOOLEAN] : n \in 0..MaxUpd }

\* the files and DEFAULT_CONFIG after update_server_status was called on the
\* record k once for each outcome of seq, at the times t, t+1, ...
RECURSIVE StatusRun(_, _, _, _, _)
StatusRun(fs, dc, k, seq, t) ==
    IF seq = <<>> THEN [fs |-> fs, dc |-> dc]
    ELSE LET r == update_server_status(fs, dc, t, G1, k, Head(seq), NoFault)
         IN  StatusRun(r.fs, r.dc, k, Tail(seq), t + 1)

\* the number of failures at the end of seq, after its last success
RECURSIVE TrailingFails(_)
TrailingFails(seq) ==
    IF seq = <<>> \/ seq[Len(seq)] THEN 0
    ELSE 1 + TrailingFails(SubSeq(seq, 1, Len(seq) - 1))

\* C13, one update: on the record the identifier resolves to,
\* update_server_status(success=True) at time t sets failed_count to 0 and
\* last_success_time to t; update_server_status(success=False) raises
\* failed_count (0 when the record has none) by one, sets last_failed_time to t
\* and leaves last_success_time as it is.
C13_Update(fs) ==
    \A identifier \in Idents, success \in BOOLEAN :
        LET k == Resolve(fs, G1, identifier)
            r == update_server_status(fs, DEFAULT_CONFIG, now + 1, G1, identifier,
                                      success, NoFault)
        IN  k # None =>
              LET old == Recs(fs, G1).map[k[1]]
                  new == Recs(r.fs, G1).map[k[1]]
              IN  /\ r.ret
                  /\ IF success
                     THEN /\ new.failed_count = 0
                          /\ new.last_success_time = now + 1
                     ELSE /\ new.failed_count = GetOr(old, "failed_count", 0) + 1
                          /\ new.last_failed_time = Some(now + 1)
                          /\ ("last_success_time" \in DOMAIN new)
                                = ("last_success_time" \in DOMAIN old)
                          /\ GetOr(new, "last_success_time", 0)
                                = GetOr(old, "last_success_time", 0)

\* C13: each update does what C13_Update says, on the group's document and on
\* the documents migrated from the files an earlier version left; and after
\* any sequence of updates of a record add_data just created, failed_count is
\* the number of failed updates since the last successful one (since the
\* creation when there is none), and after any sequence of updates of any
\* record it is that number, plus what it was when no update succeeded.
C13_FailedCount ==
    /\ C13_Update(files)
    /\ \A f \in StartFiles :
          C13_Update(read_json([files EXCEPT ![G1] = f], DEFAULT_CONFIG, G1, NoFault).fs)
    /\ \A name \in Names \ RecNames(files, G1), seq \in Outcomes :
          LET a == add_data(files, DEFAULT_CONFIG, now, G1, name, "h1", NoFault)
              s == StatusRun(a.fs, a.dc, a.sid, seq, now + 1)
          IN  a.ret => Recs(s.fs, G1).map[a.sid].failed_count = TrailingFails(seq)
    /\ \A k \in FileKeys(files, G1), seq \in Outcomes :
          LET s == StatusRun(files, DEFAULT_CONFIG, k, seq, now + 1)
              c == Recs(s.fs, G1).map[k].failed_count
          IN  /\ c >= 0
              /\ c = IF \E i \in 1..Len(seq) : seq[i] THEN TrailingFails(seq)
                     ELSE Recs(files, G1).map[k].failed_count + Len(seq)

\* C13 witness: a record has been updated with a failure, and one more failure
\* makes its failed_count 2.
C13_Witness ==
    \E k \in FileKeys(files, G1) :
        /\ Recs(files, G1).map[k].failed_count = 1
        /\ Recs(files, G1).map[k].last_failed_time # None
        /\ Recs(StatusRun(files, DEFAULT_CONFIG, k, <<FALSE>>, now + 1).fs, G1).map[k].failed_count = 2

\* ten days, in seconds
TenDays == 10 * 24 * 3600

\* the times a cleanup is run at: now, ten days from now, and one second later
CleanupTimes == {now, now + TenDays, now + TenDays + 1}

\* the keys, in document order, of the records of servers that are stale at t:
\* last_success_time (0 when missing) is less than t minus ten days
Stale(servers, t) ==
    SelectSeq(servers.order,
              LAMBDA k : (IF "last_success_time" \in DOMAIN servers.map[k]
                          THEN servers.map[k].last_success_time ELSE 0) < t - TenDays)

\* the list names exactly the records of servers under the keys ks, in order
ListsRecords(list, servers, ks) ==
    /\ Len(list) = Len(ks)
    /\ \A i \in 1..Len(ks) :
          /\ list[i].id = ks[i]
          /\ list[i].name = servers.map[ks[i]].name
          /\ list[i].host = servers.map[ks[i]].host

\* C14 as claimed, for the file of G1 in fs: auto_cleanup_servers at t removes
\* exactly the stale records of the file, returns them, leaves the other
\* records and next_id as they are, and the file is written (and last_cleanup
\* set) only when a record was removed.
C14_Claimed(fs, t) ==
    LET r == auto_cleanup_servers(fs, DEFAULT_CONFIG, t, G1, NoFault)
    IN  /\ ListsRecords(r.ret, Recs(fs, G1), Stale(Recs(fs, G1), t))
        /\ IF r.ret = <<>> THEN r.fs = fs
           ELSE /\ HasDoc(fs, G1)
                /\ r.fs[G1] = Json(Put(Put(fs[G1].data, "servers",
                                           DelAll(Recs(fs, G1), Stale(Recs(fs, G1), t))),
                                       "last_cleanup", Some(t)))

C14_WritesOnlyOnRemoval ==
    \A t \in CleanupTimes : C14_Claimed(files, t)

\* C14 amended, for the file of G1 in fs: with d the document read_json
\* returns for the file, auto_cleanup_servers at t removes from d exactly its
\* stale records and returns them in document order; when there is none the
\* file is as read_json left it (created when it was missing, migrated when it
\* was old); when there is one the file holds d without the stale records and
\* with last_cleanup = t, every other record and next_id as in d.
C14_Amended(fs, t) ==
    LET d == read_json(fs, DEFAULT_CONFIG, G1, NoFault)
        r == auto_cleanup_servers(fs, DEFAULT_CONFIG, t, G1, NoFault)
    IN  d.exc = "none" =>
          /\ ListsRecords(r.ret, Servers(d.data), Stale(Servers(d.data), t))
          /\ \A h \in Groups \ {G1} : r.fs[h] = fs[h]
          /\ IF Stale(Servers(d.data), t) = <<>> THEN r.fs = d.fs
             ELSE r.fs[G1] = Json(Put(Put(d.data, "servers",
                                          DelAll(Servers(d.data),
                                                 Stale(Servers(d.data), t))),
                                      "last_cleanup", Some(t)))

\* C14 amended: C14_Amended on the group's file and on the files an earlier
\* version may have left, at every time of CleanupTimes; and a record add_data
\* has just created is not removed by a cleanup up to ten days later.
C14_Cleanup ==
    /\ \A t \in CleanupTimes :
          /\ C14_Amended(files, t)
          /\ \A f \in StartFiles : C14_Amended([files EXCEPT ![G1] = f], t)
    /\ \A name \in Names, t \in {now, now + TenDays} :
          LET a == add_data(files, DEFAULT_CONFIG, now, G1, name, "h1", NoFault)
          IN  a.ret => a.sid \in FileKeys(auto_cleanup_servers(a.fs, a.dc, t, G1,
                                                                NoFault).fs, G1)

\* C14 witness: the document holds a record whose last success is ten days and
\* a second before the cleanup and a younger one; the cleanup returns one
\* record and keeps the other.
C14_Witness ==
    LET r == auto_cleanup_servers(files, DEFAULT_CONFIG, T0 + TenDays + 1, G1, NoFault)
    IN  /\ Len(r.ret) = 1
        /\ Cardinality(FileKeys(files, G1)) = 2
        /\ Cardinality(FileKeys(r.fs, G1)) = 1

\* the file of g is in the old format
IsOld(fs, g) == fs[g].kind = "json" /\ is_old_format(fs[g].data)

\* servers holds exactly the entries of the old-format dict old, in its order,
\* under the ids 1..n, each with its name and host
ExactlyOld(servers, old) ==
    /\ servers.order = [i \in 1..Len(old.order) |-> Str(i)]
    /\ \A i \in 1..Len(old.order) :
          /\ servers.map[Str(i)].id = i
          /\ servers.map[Str(i)].name = old.map[old.order[i]].name
          /\ servers.map[Str(i)].host = old.map[old.order[i]].host

\* C15 as claimed: whatever was done before, read_json on an old-format file
\* returns and saves a version-2.1 document whose servers are exactly the old
\* entries, in file order, under the ids 1..n, with next_id n+1; a second
\* read_json returns that document and leaves the file as it is.
C15_Migration ==
    \A g \in Groups :
        IsOld(files, g) =>
            LET r == read_json(files, DEFAULT_CONFIG, g, NoFault)
                again == read_json(r.fs, r.dc, g, NoFault)
            IN  /\ r.exc = "none"
                /\ Get(r.data, "version") = CURRENT_VERSION
                /\ ExactlyOld(Servers(r.data), files[g].data)
                /\ Get(r.data, "next_id") = Len(files[g].data.order) + 1
                /\ r.fs[g] = Json(r.data)
                /\ again.exc = "none" /\ again.data = r.data /\ again.fs = r.fs

\* the record old with the name and the host an update gives it
Renamed(old, new_name, new_host) ==
    [f \in DOMAIN old \cup (IF new_name # None THEN {"name"} ELSE {})
                      \cup (IF new_host # None THEN {"host"} ELSE {}) |->
        IF f = "name" /\ new_name # None THEN new_name[1]
        ELSE IF f = "host" /\ new_host # None THEN new_host[1]
        ELSE old[f]]

\* C16, on the files fs: update_data that returns True has resolved its
\* identifier (id key first, else the first record of that name) and changed
\* only the name and/or the host of that record: its other fields, every other
\* record, the order of the records, next_id and the rest of the document are
\* as before; update_data that returns False leaves the files as they were.
C16_Update(fs) ==
    \A identifier \in Idents, new_name \in OptNames, new_host \in Opt({"h2"}) :
        LET k == Resolve(fs, G1, identifier)
            r == update_data(fs, DEFAULT_CONFIG, G1, identifier, new_name,
                             new_host, NoFault)
        IN  HasDoc(fs, G1) =>
              IF r.ret
              THEN /\ k # None
                   /\ r.fs = [fs EXCEPT ![G1] = Json(Put(fs[G1].data, "servers",
                          Put(Recs(fs, G1), k[1],
                              Renamed(Recs(fs, G1).map[k[1]], new_name, new_host))))]
              ELSE /\ r.fs = fs
                   /\ \/ k = None
                      \/ /\ new_name # None
                         /\ \E k2 \in FileKeys(fs, G1) \ {k[1]} :
                               Recs(fs, G1).map[k2].name = new_name[1]

\* C16: update_data does what C16_Update says on the group's document and on
\* the documents migrated from the files an earlier version left.
C16_UpdateFrame ==
    /\ C16_Update(files)
    /\ \A f \in StartFiles :
          C16_Update(read_json([files EXCEPT ![G1] = f], DEFAULT_CONFIG, G1, NoFault).fs)

\* C16 witness: the document holds a record k1 whose name is the key k2 of
\* another record; update_data with that string and a new name and host returns
\* True, changes k2 and keeps k1, and update_data of k2 to the name of k1 is
\* refused.
C16_Witness ==
    \E k1, k2 \in FileKeys(files, G1) :
        /\ k1 # k2
        /\ Recs(files, G1).map[k1].name = k2
        /\ Recs(files, G1).map[k2].name # "a"
        /\ update_data(files, DEFAULT_CONFIG, G1, k2, Some("a"), Some("h2"), NoFault).ret
        /\ Recs(update_data(files, DEFAULT_CONFIG, G1, k2, Some("a"), Some("h2"),
                            NoFault).fs, G1).map[k2].host = "h2"
        /\ Recs(update_data(files, DEFAULT_CONFIG, G1, k2, Some("a"), Some("h2"),
                            NoFault).fs, G1).map[k1] = Recs(files, G1).map[k1]
        /\ ~update_data(files, DEFAULT_CONFIG, G1, k2, Some(k2), None, NoFault).ret

\* get_server_status lets /mcadd go on: it returned information, or it returned
\* None and force is set
PreQueryPasses(st, force) == st = "info" \/ (st = "none" /\ force)

\* the reply of a refused /mcadd <name> <host> [force] on the files fs, None
\* when none of the four reasons to refuse it holds
Refusal(fs, name, host, force, st) ==
    IF ~HostMatch(host) THEN Some("bad address")
    ELSE IF st = "none" /\ ~force THEN Some("pre-query failed")
    ELSE IF PreQueryPasses(st, force) /\ host \in RecHosts(fs, G1)
    THEN Some("address exists")
    ELSE IF PreQueryPasses(st, force) /\ name \in RecNames(fs, G1)
    THEN Some("cannot add")
    ELSE None

\* C17, on the files fs: /mcadd with a host that does not match the pattern
\* (force or not), with a pre-query that returns None and no force, with the
\* host of a record or with the name of a record replies with its refusal and
\* leaves the servers, next_id and the rest of every file as they were.
C17_On(fs) ==
    \A name \in Names, host \in CmdHosts, force \in BOOLEAN, st \in StatusOutcomes :
        LET r == mcadd(fs, DEFAULT_CONFIG, now, G1, name, host, force, st, NoOracle)
            why == Refusal(fs, name, host, force, st)
        IN  why # None =>
              /\ r.replies = <<Plain(why[1])>>
              /\ Recs(r.fs, G1) = Recs(fs, G1)
              /\ CurNext(r.fs, G1) = CurNext(fs, G1)
              /\ r.fs = fs

\* C17: a refused /mcadd changes nothing, on the group's document and on the
\* documents migrated from the files an earlier version left.
C17_RefusedAdd ==
    /\ C17_On(files)
    /\ \A f \in StartFiles :
          C17_On(read_json([files EXCEPT ![G1] = f], DEFAULT_CONFIG, G1, NoFault).fs)

\* C17 witness: the group has a record named a at h1 and next_id 2; /mcadd with
\* a host out of the pattern and force, without an answer of the pre-query, with
\* the host h1 and with the name a are refused, each with its own reply.
C17_Witness ==
    /\ Holds(files, G1, "a", "h1")
    /\ CurNext(files, G1) = 2
    /\ mcadd(files, DEFAULT_CONFIG, now, G1, "2", "h!", TRUE, "info", NoOracle).replies
          = <<Plain("bad address")>>
    /\ mcadd(files, DEFAULT_CONFIG, now, G1, "2", "h2", FALSE, "none", NoOracle).replies
          = <<Plain("pre-query failed")>>
    /\ mcadd(files, DEFAULT_CONFIG, now, G1, "2", "h1", TRUE, "none", NoOracle).replies
          = <<Plain("address exists")>>
    /\ mcadd(files, DEFAULT_CONFIG, now, G1, "a", "h2", FALSE, "info", NoOracle).replies
          = <<Plain("cannot add")>>

\* the strings /mc is called with: ids, names and hosts, of records or not
McStrings == McArgs \cup CmdHosts

\* C19, on the files fs: when the group has a document, /mc with any argument
\* and any outcome of the status query leaves every file as it was, one second
\* later: the servers with their last_success_time, last_failed_time and
\* failed_count, and next_id.
C19_On(fs) ==
    \A host \in McStrings, st \in StatusOutcomes :
        LET r == mcgetter(fs, DEFAULT_CONFIG, now + 1, G1, host, st, NoOracle)
        IN  HasDoc(fs, G1) =>
              /\ Recs(r.fs, G1) = Recs(fs, G1)
              /\ CurNext(r.fs, G1) = CurNext(fs, G1)
              /\ r.fs = fs

\* C19: /mc modifies no document of the group, neither one the commands made
\* nor one migrated from a file an earlier version left.
C19_McReadOnly ==
    /\ C19_On(files)
    /\ \A f \in StartFiles :
          C19_On(read_json([files EXCEPT ![G1] = f], DEFAULT_CONFIG, G1, NoFault).fs)

\* C19 witness: the group has a record; /mc with its id, with its name and with
\* its host, while the status query fails, replies that there is no information
\* and the record is as it was.
C19_Witness ==
    \E k \in FileKeys(files, G1) :
        /\ \A host \in {k, Recs(files, G1).map[k].name, Recs(files, G1).map[k].host} :
              mcgetter(files, DEFAULT_CONFIG, now + 1, G1, host, "raise", NoOracle).replies
                 = <<Plain("no available server information")>>
        /\ McLookup(Recs(files, G1), k) = Some(k)
        /\ Recs(mcgetter(files, DEFAULT_CONFIG, now + 1, G1, k, "none", NoOracle).fs,
                G1).map[k] = Recs(files, G1).map[k]

\* C18: after any run of /mcadd, /mcdel and /mcup on one group that starts
\* without a file, no two records of the group have the same host.
C18_HostsUnique ==
    \A k1, k2 \in FileKeys(files, G1) :
        k1 # k2 => Recs(files, G1).map[k1].host # Recs(files, G1).map[k2].host

\* C20: on the group's document, for every identifier, the record /mc picks
\* (the loop of mcgetter), the record /mcdel picks (del_data) and the record
\* /mcup picks (update_data) are the same one: the record under that id key
\* when there is one, else the first record of that name, else none.
C20_SameResolution ==
    HasDoc(files, G1) =>
        \A identifier \in Idents :
            /\ DelLookup(files[G1].data, identifier) = Resolve(files, G1, identifier)
            /\ UpdateLookup(files[G1].data, identifier) = Resolve(files, G1, identifier)
            /\ McLookup(Recs(files, G1), identifier) = Resolve(files, G1, identifier)

\* C21: whatever way two coroutines' add_data, del_data, update_data and
\* update_server_status calls on the group's file interleave at their reads and
\* writes, no document written to the file has two records of the same name.
C21_WrittenNamesUnique ==
    HasDoc(files, G1) =>
        \A k1 \in FileKeys(files, G1) :
            Cardinality({k2 \in FileKeys(files, G1) :
                Recs(files, G1).map[k2].name = Recs(files, G1).map[k1].name}) = 1

\* C21, the part that holds: two records of a written document have the same
\* name only when that name is the empty string.
C21_OnlyEmptyNameRepeats ==
    HasDoc(files, G1) =>
        \A k1, k2 \in FileKeys(files, G1) :
            (k1 # k2 /\ Recs(files, G1).map[k1].name = Recs(files, G1).map[k2].name)
                => Recs(files, G1).map[k1].name = ""

\* the largest number of a set
Max(S) == CHOOSE x \in S : \A y \in S : x >= y

\* position p of line starts a colour code: § followed by one of 0-9, a-f, r
CodeAt(line, p) ==
    /\ p \in 1..(Len(line) - 1)
    /\ line[p] = "§"
    /\ line[p + 1] \in PatternChars

\* position q of line is text: not a character of a colour code
TextAt(line, q) ==
    /\ q \in 1..Len(line)
    /\ ~CodeAt(line, q)
    /\ ~CodeAt(line, q - 1)

\* the positions where a run of text begins, and the end of the run begun at q
RunStarts(line) == { q \in 1..Len(line) : TextAt(line, q) /\ ~TextAt(line, q - 1) }
RunEnd(line, q) ==
    Max({ e \in q..Len(line) : \A j \in q..e : TextAt(line, j) })

\* the colour at position q: that of the nearest colour code before q on the
\* line, white when there is none
ColourAt(line, q) ==
    IF \E p \in 1..q : CodeAt(line, p)
    THEN color_map[line[Max({ p \in 1..q : CodeAt(line, p) }) + 1]]
    ELSE White

\* the runs of text of a line, in order, each with its colour
SegmentsOf(line) ==
    [n \in 1..Cardinality(RunStarts(line)) |->
        LET q == CHOOSE s \in RunStarts(line) :
                    Cardinality({ t \in RunStarts(line) : t <= s }) = n
        IN  <<SubSeq(line, q, RunEnd(line, q)), ColourAt(line, q)>>]

\* the lines of a MOTD: the texts between its newlines
RECURSIVE Flat(_)
Flat(ss) == IF ss = <<>> THEN <<>> ELSE Head(ss) \o Flat(Tail(ss))
LineBreaks(m) == { i \in 1..Len(m) : m[i] = "\n" }
LinesOf(m) ==
    [n \in 1..(Cardinality(LineBreaks(m)) + 1) |->
        LET ends == LineBreaks(m) \cup {Len(m) + 1}
            e == CHOOSE x \in ends : Cardinality({ y \in ends : y < x }) = n - 1
            b == Max({ y \in LineBreaks(m) \cup {0} : y < e })
        IN  SubSeq(m, b + 1, e - 1)]

\* the number of iterations of the while loop on a line
Iterations(line) ==
    WhileLoop(ReSplit(line, 1, <<>>, <<>>), 1, White, <<>>, 0).n

====
